---- MODULE Spec2Model ----
(***************************************************************************)
(* WeatherService (src/tp_mocking/weather_service.py): a client of the     *)
(* OpenWeather HTTP API that also appends lookups to a JSON log file.      *)
(*                                                                         *)
(* Python values are modelled as follows.  A dict is a function whose      *)
(* domain is its set of keys, a list and a str are sequences (a str is a   *)
(* sequence of one-character strings where the code looks inside it).      *)
(* Temperatures are numbers; only their order and equality are used by    *)
(* the code, so they are drawn from a set of integers.  The outcome of a   *)
(* call is Value(v), None, or Raise(e) when an exception leaves the call.  *)
(***************************************************************************)
EXTENDS Integers, Sequences, FiniteSets, TLC

\* ------------------------------------------------------------------------
\* Bounds of the model
\* ------------------------------------------------------------------------
MaxSaves == 2
MaxCalls == 1
MaxDays == 2

Cities == {"Paris", "Lyon"}
Temps == {0, 20, 25}
Timestamps == {"2023-01-01T10:00:00", "2023-01-01T12:00:00.000000"}

\* ------------------------------------------------------------------------
\* Python values
\* ------------------------------------------------------------------------
None == [tag |-> "None"]
Unset == [tag |-> "unset"]
Value(v) == [tag |-> "value", val |-> v]
Raise(e) == [tag |-> "raise", exc |-> e]

\* (not x: zero counts as absent)
is_falsy(x) == x = None \/ x = Value(0)

\* x is None
is_none(x) == x = None

\* bool(x) of a dict, a list or None: None and the empty containers are falsy
Truthy(x) == x # None /\ x # <<>>

\* d[k] = v on a dict
SetItem(d, k, v) == [x \in (DOMAIN d) \cup {k} |-> IF x = k THEN v ELSE d[x]]

ToLower ==
    [A |-> "a", B |-> "b", C |-> "c", D |-> "d", E |-> "e", F |-> "f",
     G |-> "g", H |-> "h", I |-> "i", J |-> "j", K |-> "k", L |-> "l",
     M |-> "m", N |-> "n", O |-> "o", P |-> "p", Q |-> "q", R |-> "r",
     S |-> "s", T |-> "t", U |-> "u", V |-> "v", W |-> "w", X |-> "x",
     Y |-> "y", Z |-> "z"]

\* str.lower()
Lower(s) == [i \in 1..Len(s) |-> IF s[i] \in DOMAIN ToLower THEN ToLower[s[i]] ELSE s[i]]

\* sub in s, for two strs
Contains(sub, s) ==
    \E i \in 1..(Len(s) - Len(sub) + 1) : SubSeq(s, i, i + Len(sub) - 1) = sub

Digit(d) == <<"0", "1", "2", "3", "4", "5", "6", "7", "8", "9">>[d + 1]

RECURSIVE StrNat(_)
StrNat(n) == IF n < 10 THEN <<Digit(n)>> ELSE StrNat(n \div 10) \o <<Digit(n % 10)>>

\* str(n), as an f-string formats a number
Str(n) == IF n < 0 THEN <<"-">> \o StrNat(0 - n) ELSE StrNat(n)

\* ------------------------------------------------------------------------
\* Configuration (WeatherService.__init__) and program constants
\* ------------------------------------------------------------------------
base_url == "http://api.openweathermap.org/data/2.5"
api_key == "fake_api_key"

GoodTemperature == 20
ForecastsPerDay == 8

\* ------------------------------------------------------------------------
\* The HTTP API: what requests.get / raise_for_status / json can do
\* ------------------------------------------------------------------------
Clear == <<"C", "l", "e", "a", "r">>
Rain == <<"R", "a", "i", "n">>
LightRain == <<"l", "i", "g", "h", "t", " ", "r", "a", "i", "n">>
Conditions == {Clear, Rain, LightRain}

NotFoundBody == [cod |-> "404", message |-> "city not found"]
ForecastEntry == [dt |-> 1624000000, main |-> [temp |-> 22], weather |-> <<[main |-> Clear]>>]

WeatherBodies ==
    {[main |-> [temp |-> t], weather |-> <<[main |-> c]>>] : t \in Temps, c \in Conditions}

Bodies ==
    WeatherBodies
    \cup {<<>>, NotFoundBody}
    \cup {[main |-> [temp |-> t]] : t \in Temps}
    \cup {[weather |-> <<[main |-> Clear]>>]}
    \cup {[main |-> [humidity |-> 50]],
          [main |-> [humidity |-> 50], weather |-> <<[main |-> Clear]>>]}
    \cup {[main |-> [temp |-> 25], weather |-> <<>>],
          [main |-> [temp |-> 25], weather |-> <<[description |-> "ciel"]>>]}
    \cup {[list |-> <<>>], [list |-> <<ForecastEntry>>]}

Responses ==
    {[kind |-> "transport_error"], [kind |-> "http_error"], [kind |-> "bad_json"]}
    \cup {[kind |-> "ok", body |-> b] : b \in Bodies}

\* ------------------------------------------------------------------------
\* WeatherService methods, as functions of their arguments and of what the
\* environment answers
\* ------------------------------------------------------------------------
\* (a request that leaves the unit system out)
Request_no_units(endpoint, params) ==
    [method |-> "GET",
     url |-> <<base_url, "/", endpoint>>,
     params |-> SetItem(params, "appid", api_key)]

Request(endpoint, params) ==
    [method |-> "GET",
     url |-> <<base_url, "/", endpoint>>,
     params |-> SetItem(SetItem(params, "appid", api_key), "units", "metric")]

\* requests.get, raise_for_status and response.json each either go through or
\* raise; every exception is caught and gives None (callers always pass params)
_make_request(endpoint, params, resp) ==
    [sent |-> <<Request(endpoint, params)>>,
     data |-> IF resp.kind = "ok" THEN resp.body ELSE None]

get_temperature(city, resp) ==
    LET r == _make_request("weather", [q |-> city], resp)
        data == r.data
    IN  [sent |-> r.sent,
         result |-> IF Truthy(data) /\ "main" \in DOMAIN data
                    THEN IF "temp" \in DOMAIN data["main"]
                         THEN Value(data["main"]["temp"])
                         ELSE Raise("KeyError")
                    ELSE None]

\* (a reader that starts from an empty list whatever the file holds)
json_load_fresh(f) ==
    CASE f.kind = "undecodable" -> Raise("UnicodeDecodeError")
      [] f.kind = "object" -> Value([type |-> "dict"])
      [] OTHER -> Value([type |-> "list", items |-> <<>>])

\* try: open(filename, "r"); json.load(f)  except (FileNotFoundError,
\* json.JSONDecodeError): []   -- the value bound to `reports`, or the
\* exception that the except clause does not catch
json_load(f) ==
    CASE f.kind = "absent" -> Value([type |-> "list", items |-> <<>>])
      [] f.kind = "corrupt" -> Value([type |-> "list", items |-> <<>>])
      [] f.kind = "undecodable" -> Raise("UnicodeDecodeError")
      [] f.kind = "object" -> Value([type |-> "dict"])
      [] f.kind = "array" -> Value([type |-> "list", items |-> f.reports])

\* open(filename, "w"); json.dump(reports, f, indent=2): the file is replaced
\* by the JSON array of the reports (strs and numbers under str keys, which
\* json writes and reads back unchanged)
json_dump(reports) == [kind |-> "array", reports |-> reports]

\* a file whose text is not a JSON document: empty (as open(filename, "w")
\* leaves it before anything is written) or garbled
Corrupt == [kind |-> "corrupt", reports |-> <<>>]

\* (the report put at the head of the list)
insert_first(reports, report) == <<report>> \o reports

\* reports.append(report)
append(reports, report) == Append(reports, report)

\* (the log is read before the temperature is looked at)
save_weather_report_reads_first(city, lookup, now, f) ==
    LET temp == lookup.result
        report == [city |-> city, temperature |-> temp.val, timestamp |-> now]
        loaded == json_load(f)
        quiet == [sent |-> lookup.sent, temp |-> temp, now |-> Unset, file |-> f, fsops |-> <<>>]
    IN  IF temp.tag = "raise" THEN [quiet EXCEPT !.temp = Unset] @@ [result |-> temp]
        ELSE IF loaded.tag = "raise"
             THEN [quiet EXCEPT !.fsops = <<"r">>] @@ [result |-> loaded]
        ELSE IF is_none(temp)
             THEN [quiet EXCEPT !.fsops = <<"r">>] @@ [result |-> Value(FALSE)]
        ELSE IF loaded.tag = "raise"
             THEN [quiet EXCEPT !.now = now, !.fsops = <<"r">>] @@ [result |-> loaded]
        ELSE IF loaded.val.type # "list"
             THEN [quiet EXCEPT !.now = now, !.fsops = <<"r">>]
                  @@ [result |-> Raise("AttributeError")]
        ELSE [quiet EXCEPT !.now = now, !.fsops = <<"r", "w">>,
                           !.file = json_dump(append(loaded.val.items, report))]
             @@ [result |-> Value(TRUE)]

\* the whole call, given what get_temperature came back with, the time of the
\* call and the log file: an exception of the lookup leaves the call; None
\* returns False; otherwise the log is read, extended and written back.  A
\* log holding JSON that is no array makes reports.append raise.
save_weather_report(city, lookup, now, f) ==
    LET temp == lookup.result
        report == [city |-> city, temperature |-> temp.val, timestamp |-> now]
        loaded == json_load(f)
        quiet == [sent |-> lookup.sent, temp |-> temp, now |-> Unset, file |-> f, fsops |-> <<>>]
    IN  IF temp.tag = "raise" THEN [quiet EXCEPT !.temp = Unset] @@ [result |-> temp]
        ELSE IF is_none(temp) THEN quiet @@ [result |-> Value(FALSE)]
        ELSE IF loaded.tag = "raise"
             THEN [quiet EXCEPT !.now = now, !.fsops = <<"r">>] @@ [result |-> loaded]
        ELSE IF loaded.val.type # "list"
             THEN [quiet EXCEPT !.now = now, !.fsops = <<"r">>]
                  @@ [result |-> Raise("AttributeError")]
        ELSE [quiet EXCEPT !.now = now, !.fsops = <<"r", "w">>,
                           !.file = json_dump(append(loaded.val.items, report))]
             @@ [result |-> Value(TRUE)]

get_forecast(city, days, resp) ==
    LET r == _make_request("forecast", [q |-> city, cnt |-> days * ForecastsPerDay], resp)
        data == r.data
    IN  [sent |-> r.sent,
         result |-> IF ~Truthy(data) \/ "list" \notin DOMAIN data
                    THEN None
                    ELSE Value(data["list"])]

\* temp > 20 and "rain" not in weather_condition
good_weather_ge(temp, weather_condition) ==
    temp >= GoodTemperature /\ ~Contains(<<"r", "a", "i", "n">>, weather_condition)

good_weather(temp, weather_condition) ==
    temp > GoodTemperature /\ ~Contains(<<"r", "a", "i", "n">>, weather_condition)

is_good_weather(city, resp) ==
    LET r == _make_request("weather", [q |-> city], resp)
        data == r.data
    IN  [sent |-> r.sent,
         result |->
            IF ~Truthy(data) \/ "main" \notin DOMAIN data \/ "weather" \notin DOMAIN data
            THEN None
            ELSE IF "temp" \notin DOMAIN data["main"] THEN Raise("KeyError")
            ELSE IF Len(data["weather"]) = 0 THEN Raise("IndexError")
            ELSE IF "main" \notin DOMAIN data["weather"][1] THEN Raise("KeyError")
            ELSE LET temp == data["main"]["temp"]
                     weather_condition == Lower(data["weather"][1]["main"])
                 IN  Value(good_weather(temp, weather_condition))]

CannotCompare == <<"Impossible de comparer les villes">>

\* the if / elif / else on the two temperatures
comparison_ge(city1, city2, temp1, temp2) ==
    IF temp1 >= temp2
    THEN <<city1, " est plus chaud que ", city2, " (",
           Str(temp1), "°C > ", Str(temp2), "°C)">>
    ELSE IF temp2 > temp1
    THEN <<city2, " est plus chaud que ", city1, " (",
           Str(temp2), "°C > ", Str(temp1), "°C)">>
    ELSE <<"Les deux villes ont la même température (", Str(temp1), "°C)">>

comparison(city1, city2, temp1, temp2) ==
    IF temp1 > temp2
    THEN <<city1, " est plus chaud que ", city2, " (",
           Str(temp1), "°C > ", Str(temp2), "°C)">>
    ELSE IF temp2 > temp1
    THEN <<city2, " est plus chaud que ", city1, " (",
           Str(temp2), "°C > ", Str(temp1), "°C)">>
    ELSE <<"Les deux villes ont la même température (", Str(temp1), "°C)">>

compare_cities(city1, city2, lookup1, lookup2) ==
    LET temp1 == lookup1.result
        temp2 == lookup2.result
    IN  IF temp1.tag = "raise"
        THEN [sent |-> lookup1.sent, temp1 |-> Unset, temp2 |-> Unset, result |-> temp1]
        ELSE IF temp2.tag = "raise"
        THEN [sent |-> lookup1.sent \o lookup2.sent, temp1 |-> temp1, temp2 |-> Unset,
              result |-> temp2]
        ELSE [sent |-> lookup1.sent \o lookup2.sent, temp1 |-> temp1, temp2 |-> temp2,
              result |->
                IF is_none(temp1) \/ is_none(temp2) THEN Value(CannotCompare)
                ELSE Value(comparison(city1, city2, temp1.val, temp2.val))]

\* what self.get_temperature(city) can come back with
Lookups(city) == {get_temperature(city, resp) : resp \in Responses}

\* ------------------------------------------------------------------------
\* State
\* ------------------------------------------------------------------------
VARIABLES
    file,    \* the log file: [kind, reports]
    last,    \* the last completed call: arguments, locals, result
    sent,    \* the HTTP requests the last call issued, in order
    fsops,   \* the opens of the log file the last call made, in order
    base,    \* the log file as it was found at the start
    hist,    \* the reports of the saves that returned True, in order of return
    budget,  \* the number of calls the caller has yet to make
    threads, \* the save_weather_report call each concurrent caller is in
    trace    \* the file accesses of the concurrent callers, in order

vars == <<file, last, sent, fsops, base, hist, budget, threads, trace>>

Threads == {1, 2}

AbsentFile == [kind |-> "absent", reports |-> <<>>]

LyonReport == [city |-> "Lyon", temperature |-> 22, timestamp |-> "2023-01-01T10:00:00"]

InitialFiles ==
    {AbsentFile, json_dump(<<>>), json_dump(<<LyonReport>>), Corrupt,
     [kind |-> "undecodable", reports |-> <<>>],
     [kind |-> "object", reports |-> <<>>]}

NoCall == [pc |-> "none"]

InitService ==
    /\ file \in InitialFiles
    /\ base = file
    /\ hist = <<>>
    /\ last = [op |-> "init"]
    /\ sent = <<>>
    /\ fsops = <<>>
    /\ trace = <<>>

\* one caller, any of the five methods (the read-path methods keep no state,
\* so what one call does depends on no earlier call)
Init ==
    /\ InitService
    /\ budget = MaxCalls
    /\ threads = [t \in Threads |-> NoCall]

\* one caller, saving reports one after the other
InitSave ==
    /\ InitService
    /\ budget = MaxSaves
    /\ threads = [t \in Threads |-> NoCall]

\* the caller makes one more of the calls it set out to make
Called == budget > 0 /\ budget' = budget - 1

GetTemperature ==
    \E city \in Cities, resp \in Responses :
        LET r == get_temperature(city, resp) IN
        /\ Called
        /\ last' = [op |-> "get_temperature", city |-> city, resp |-> resp,
                    result |-> r.result]
        /\ sent' = r.sent
        /\ fsops' = <<>>
        /\ UNCHANGED <<file, base, hist, threads, trace>>

GetForecast ==
    \E city \in Cities, days \in 1..MaxDays, resp \in Responses :
        LET r == get_forecast(city, days, resp) IN
        /\ Called
        /\ last' = [op |-> "get_forecast", city |-> city, days |-> days, resp |-> resp,
                    result |-> r.result]
        /\ sent' = r.sent
        /\ fsops' = <<>>
        /\ UNCHANGED <<file, base, hist, threads, trace>>

IsGoodWeather ==
    \E city \in Cities, resp \in Responses :
        LET r == is_good_weather(city, resp) IN
        /\ Called
        /\ last' = [op |-> "is_good_weather", city |-> city, resp |-> resp,
                    result |-> r.result]
        /\ sent' = r.sent
        /\ fsops' = <<>>
        /\ UNCHANGED <<file, base, hist, threads, trace>>

CompareCities ==
    \E city1 \in Cities, city2 \in Cities :
        \E lookup1 \in Lookups(city1), lookup2 \in Lookups(city2) :
            LET r == compare_cities(city1, city2, lookup1, lookup2) IN
            /\ Called
            /\ last' = [op |-> "compare_cities", city1 |-> city1, city2 |-> city2,
                        temp1 |-> r.temp1, temp2 |-> r.temp2, result |-> r.result]
            /\ sent' = r.sent
            /\ fsops' = <<>>
            /\ UNCHANGED <<file, base, hist, threads, trace>>

SaveWeatherReport ==
    \E city \in Cities, now \in Timestamps :
        \E lookup \in Lookups(city) :
            LET r == save_weather_report(city, lookup, now, file) IN
            /\ Called
            /\ last' = [op |-> "save_weather_report", city |-> city, temp |-> r.temp,
                        now |-> r.now, result |-> r.result]
            /\ sent' = r.sent
            /\ fsops' = r.fsops
            /\ file' = r.file
            /\ hist' = IF r.result = Value(TRUE)
                       THEN Append(hist, [city |-> city, temperature |-> r.temp.val,
                                          timestamp |-> now])
                       ELSE hist
            /\ UNCHANGED <<base, threads, trace>>

Next ==
    \/ GetTemperature
    \/ GetForecast
    \/ IsGoodWeather
    \/ CompareCities
    \/ SaveWeatherReport

Spec == Init /\ [][Next]_vars

SpecSave == InitSave /\ [][SaveWeatherReport]_vars
\* ------------------------------------------------------------------------
\* Two callers inside save_weather_report at once, one call each.  A call
\* touches the log file three times: it reads it, it opens it for writing
\* (which empties it), and it writes its list and closes.
\* ------------------------------------------------------------------------
InitConc ==
    /\ InitService
    /\ budget = 0
    /\ threads = [t \in Threads |-> [pc |-> "call"]]

Returned(result) == [pc |-> "done", result |-> result]

\* lines 37-46: the lookup, then the report with the time of the call
ThreadLookup(t) ==
    /\ threads[t].pc = "call"
    /\ \E city \in Cities, now \in Timestamps :
        \E lookup \in Lookups(city) :
            LET temp == lookup.result IN
            threads' = [threads EXCEPT ![t] =
                IF temp.tag = "raise" THEN Returned(temp)
                ELSE IF is_none(temp) THEN Returned(Value(FALSE))
                ELSE [pc |-> "read",
                      report |-> [city |-> city, temperature |-> temp.val,
                                  timestamp |-> now]]]
    /\ UNCHANGED <<file, last, sent, fsops, base, hist, budget, trace>>

\* lines 49-57: read the log, append the report to the list read
ThreadRead(t) ==
    /\ threads[t].pc = "read"
    /\ LET loaded == json_load(file) IN
       threads' = [threads EXCEPT ![t] =
            IF loaded.tag = "raise" THEN Returned(loaded)
            ELSE IF loaded.val.type # "list" THEN Returned(Raise("AttributeError"))
            ELSE [pc |-> "open", report |-> threads[t].report,
                  reports |-> append(loaded.val.items, threads[t].report)]]
    /\ trace' = Append(trace, <<t, "read">>)
    /\ UNCHANGED <<file, last, sent, fsops, base, hist, budget>>

\* line 60: open(filename, "w") empties the file
ThreadOpen(t) ==
    /\ threads[t].pc = "open"
    /\ file' = Corrupt
    /\ threads' = [threads EXCEPT ![t] =
            [pc |-> "dump", report |-> threads[t].report,
             reports |-> threads[t].reports, overwrites |-> FALSE]]
    /\ trace' = Append(trace, <<t, "open">>)
    /\ UNCHANGED <<last, sent, fsops, base, hist, budget>>

\* lines 61-63: json.dump and the close at the end of the with block put the
\* text at the start of the file.  When another caller wrote through its own
\* handle since this one opened the file, the text lands over that caller's
\* text: the file holds this caller's list, or, when the other text was
\* longer, this caller's text followed by the other's tail.
ThreadDump(t) ==
    /\ threads[t].pc = "dump"
    /\ file' \in {json_dump(threads[t].reports)}
                 \cup (IF threads[t].overwrites THEN {Corrupt} ELSE {})
    /\ threads' = [u \in Threads |->
            IF u = t THEN [pc |-> "done", result |-> Value(TRUE),
                           report |-> threads[t].report]
            ELSE IF threads[u].pc = "dump"
                 THEN [threads[u] EXCEPT !.overwrites = TRUE]
                 ELSE threads[u]]
    /\ hist' = Append(hist, threads[t].report)
    /\ trace' = Append(trace, <<t, "dump">>)
    /\ UNCHANGED <<last, sent, fsops, base, budget>>

NextConc ==
    \E t \in Threads :
        \/ ThreadLookup(t)
        \/ ThreadRead(t)
        \/ ThreadOpen(t)
        \/ ThreadDump(t)

SpecConc == InitConc /\ [][NextConc]_vars
\* ------------------------------------------------------------------------
\* Properties of save_weather_report, one call at a time (SpecSave)
\* ------------------------------------------------------------------------
SaveStep == budget' # budget /\ last'.op = "save_weather_report"

NewReport == [city |-> last'.city, temperature |-> last'.temp.val, timestamp |-> last'.now]

\* C1: on a log that is absent or holds a JSON array, a save that returns
\* True leaves the previous log with exactly one record {city, temperature,
\* timestamp} of the call added at the end, the earlier entries unchanged;
\* and starting from an absent file the log is exactly the reports of the
\* successful saves, in call order.
C1_AppendsOne ==
    /\ [][(SaveStep /\ last'.result = Value(TRUE) /\ file.kind \in {"absent", "array"})
            => /\ file'.kind = "array"
               /\ Len(file'.reports) = Len(file.reports) + 1
               /\ SubSeq(file'.reports, 1, Len(file.reports)) = file.reports
               /\ file'.reports[Len(file'.reports)] = NewReport]_vars
    /\ [](base.kind = "absent"
            => /\ Len(file.reports) = Len(hist)
               /\ file.reports = hist
               /\ (file.kind = "absent" <=> hist = <<>>))

C1_Witness ==
    /\ base.kind = "absent"
    /\ Len(hist) >= 2
    /\ hist[1] # hist[2]
    /\ file.reports = hist
    /\ last.op = "save_weather_report"
    /\ last.result = Value(TRUE)

\* C2: when the temperature lookup is None, save_weather_report returns False
\* and neither opens nor changes the log file.
C2_NoLookupNoFile ==
    [][(SaveStep /\ last'.temp = None)
        => /\ last'.result = Value(FALSE)
           /\ fsops' = <<>>
           /\ file' = file
           /\ hist' = hist]_vars

C2_Witness ==
    /\ last.op = "save_weather_report"
    /\ last.temp = None
    /\ last.result = Value(FALSE)
    /\ fsops = <<>>
    /\ file = base
    /\ file.kind = "absent"

\* C3: when the lookup succeeds and the log file is missing or its content is
\* not valid JSON, save_weather_report does not raise, returns True and leaves
\* a log of exactly one entry, the new report.
C3_FreshLog ==
    [][(SaveStep /\ last'.temp.tag = "value"
            /\ file.kind \in {"absent", "corrupt", "undecodable"})
        => /\ last'.result = Value(TRUE)
           /\ file' = json_dump(<<NewReport>>)]_vars
\* ------------------------------------------------------------------------
\* Two concurrent saves (SpecConc)
\* ------------------------------------------------------------------------
Events(t, e) == {i \in 1..Len(trace) : trace[i] = <<t, e>>}

\* both callers read the log before either opened it for writing
BothReadFirst ==
    \A t \in Threads, u \in Threads :
        /\ Events(t, "read") # {}
        /\ \A i \in Events(t, "read"), j \in Events(u, "open") : i < j

BothSaved ==
    \A t \in Threads : threads[t].pc = "done" /\ threads[t].result = Value(TRUE)

BaseReports == json_load(base).val.items

\* C4: when two saves with successful lookups both read the log before either
\* writes it, both return True and the log does not hold both new entries: it
\* holds the earlier entries and one of the two new reports only (or text that
\* is no JSON at all), fewer entries than saves that succeeded.
C4_LostEntry ==
    (BothSaved /\ BothReadFirst)
        => /\ Len(hist) = 2
           /\ file.kind \in {"array", "corrupt"}
           /\ Len(file.reports) < Len(BaseReports) + Len(hist)
           /\ file.kind = "array"
                => \E t \in Threads :
                        file.reports = BaseReports \o <<threads[t].report>>

C4_Witness ==
    /\ BothSaved
    /\ BothReadFirst
    /\ file.kind = "array"
    /\ base.kind = "array"
    /\ Len(BaseReports) = 1
    /\ Len(file.reports) = 2
    /\ Len(hist) = 2
    /\ threads[1].report # threads[2].report
\* ------------------------------------------------------------------------
\* Properties of single calls (Spec)
\* ------------------------------------------------------------------------
HasTemp(resp) ==
    /\ resp.kind = "ok"
    /\ Truthy(resp.body)
    /\ "main" \in DOMAIN resp.body
    /\ "temp" \in DOMAIN resp.body["main"]

HasCondition(resp) ==
    /\ resp.kind = "ok"
    /\ Truthy(resp.body)
    /\ "weather" \in DOMAIN resp.body
    /\ Len(resp.body["weather"]) > 0
    /\ "main" \in DOMAIN resp.body["weather"][1]

\* C5: get_temperature returns the value at main.temp when the HTTP call
\* succeeded and the body has it, and None in every other case (transport
\* error, error status, body without main, malformed body).
C5_TemperatureOrNone ==
    last.op = "get_temperature"
        => last.result = IF HasTemp(last.resp)
                         THEN Value(last.resp.body["main"]["temp"])
                         ELSE None

\* C6: for a successful body with both main and weather, is_good_weather
\* returns True exactly when main.temp > 20 and lower-cased weather[0].main
\* does not contain "rain" (False at exactly 20, False at 25 with "Rain");
\* it returns None when the body lacks main or weather.
C6_GoodWeather ==
    (last.op = "is_good_weather" /\ last.resp.kind = "ok")
        => LET body == last.resp.body
               both == Truthy(body) /\ "main" \in DOMAIN body /\ "weather" \in DOMAIN body
           IN  /\ ~both => last.result = None
               /\ both =>
                    (last.result = Value(TRUE)
                        <=> /\ HasTemp(last.resp) /\ HasCondition(last.resp)
                            /\ body["main"]["temp"] > 20
                            /\ ~Contains(<<"r", "a", "i", "n">>,
                                         Lower(body["weather"][1]["main"])))
               /\ (HasTemp(last.resp) /\ HasCondition(last.resp))
                    => /\ last.result \in {Value(TRUE), Value(FALSE)}
                       /\ body["main"]["temp"] = 20 => last.result = Value(FALSE)
                       /\ (body["main"]["temp"] = 25 /\ body["weather"][1]["main"] = Rain)
                            => last.result = Value(FALSE)
                       /\ (body["main"]["temp"] = 25 /\ body["weather"][1]["main"] = Clear)
                            => last.result = Value(TRUE)

C6_Witness ==
    /\ last.op = "is_good_weather"
    /\ last.resp = [kind |-> "ok",
                    body |-> [main |-> [temp |-> 20], weather |-> <<[main |-> Clear]>>]]
    /\ last.result = Value(FALSE)

Max(a, b) == IF a >= b THEN a ELSE b
Min(a, b) == IF a <= b THEN a ELSE b

\* C7: compare_cities returns "Impossible de comparer les villes" whenever
\* either lookup is None; otherwise the message names the strictly warmer city
\* first with both temperatures, the same whichever way round the two cities
\* are given, and it is the same-temperature message exactly when the two
\* temperatures are equal.
C7_Compare ==
    (last.op = "compare_cities" /\ last.temp1 # Unset /\ last.temp2 # Unset)
        => LET msg == last.result.val
               swapped == compare_cities(last.city2, last.city1,
                                         [sent |-> <<>>, result |-> last.temp2],
                                         [sent |-> <<>>, result |-> last.temp1]).result.val
           IN  /\ last.result.tag = "value"
               /\ (last.temp1 = None \/ last.temp2 = None)
                    <=> msg = <<"Impossible de comparer les villes">>
               /\ (last.temp1 # None /\ last.temp2 # None)
                    => LET t1 == last.temp1.val
                           t2 == last.temp2.val
                       IN  /\ t1 = t2 <=> Len(msg) = 3
                           /\ t1 = t2 =>
                                /\ msg = <<"Les deux villes ont la même température (",
                                           Str(t1), "°C)">>
                                /\ swapped = msg
                           /\ t1 # t2 =>
                                /\ Len(msg) = 8
                                /\ msg[1] = (IF t1 > t2 THEN last.city1 ELSE last.city2)
                                /\ msg[2] = " est plus chaud que "
                                /\ msg[3] = (IF t1 > t2 THEN last.city2 ELSE last.city1)
                                /\ msg[5] = Str(Max(t1, t2))
                                /\ msg[7] = Str(Min(t1, t2))
                                /\ swapped = msg

C7_Witness ==
    /\ last.op = "compare_cities"
    /\ last.city1 = "Paris" /\ last.city2 = "Lyon"
    /\ last.temp1 = Value(20) /\ last.temp2 = Value(25)
    /\ last.result = Value(<<"Lyon", " est plus chaud que ", "Paris", " (",
                             <<"2", "5">>, "°C > ", <<"2", "0">>, "°C)">>)

ReadPath == {"get_temperature", "get_forecast", "is_good_weather", "compare_cities"}

\* C8: every read-path operation returns an ordinary value and never raises,
\* whatever the transport does and whatever body comes back; a body with an
\* expected field missing at any depth gives the absent result.
C8_NeverRaises ==
    last.op \in ReadPath
        => /\ last.result.tag # "raise"
           /\ (last.op \in {"get_temperature", "is_good_weather"}
                    /\ ~(HasTemp(last.resp) /\ (last.op = "is_good_weather"
                                                    => HasCondition(last.resp))))
                => last.result = None
Get(endpoint, params) ==
    [method |-> "GET",
     url |-> <<"http://api.openweathermap.org/data/2.5", "/", endpoint>>,
     params |-> params]

WeatherRequest(city) ==
    Get("weather", [q |-> city, appid |-> "fake_api_key", units |-> "metric"])

\* C9: every HTTP request of every operation is a GET to base_url/endpoint
\* with the caller's parameters plus appid = the API key and units = "metric":
\* {q: city} to weather from get_temperature and is_good_weather (and from
\* the lookups of compare_cities and save_weather_report), {q: city,
\* cnt: days*8} to forecast from get_forecast, and nothing else.
C9_Requests ==
    /\ \A i \in 1..Len(sent) :
            /\ sent[i].method = "GET"
            /\ sent[i].url[1] = base_url /\ sent[i].url[2] = "/"
            /\ sent[i].url[3] \in {"weather", "forecast"}
            /\ DOMAIN sent[i].params \in {{"q", "appid", "units"},
                                         {"q", "cnt", "appid", "units"}}
            /\ sent[i].params["appid"] = api_key
            /\ sent[i].params["units"] = "metric"
    /\ last.op = "init" => sent = <<>>
    /\ last.op \in {"get_temperature", "is_good_weather", "save_weather_report"}
            => sent = <<WeatherRequest(last.city)>>
    /\ last.op = "get_forecast"
            => sent = <<Get("forecast", [q |-> last.city, cnt |-> last.days * 8,
                                         appid |-> "fake_api_key", units |-> "metric"])>>
    /\ last.op = "compare_cities"
            => sent = IF last.temp1 = Unset
                      THEN <<WeatherRequest(last.city1)>>
                      ELSE <<WeatherRequest(last.city1), WeatherRequest(last.city2)>>

C9_Witness ==
    /\ last.op = "get_forecast"
    /\ last.city = "Paris"
    /\ last.days = 1
    /\ sent = <<Get("forecast", [q |-> "Paris", appid |-> "fake_api_key",
                                 units |-> "metric", cnt |-> 8])>>
    /\ last.result = Value(<<ForecastEntry>>)

SavedLast ==
    /\ file.kind = "array"
    /\ Len(file.reports) > 0
    /\ file.reports[Len(file.reports)].city = last.city
    /\ file.reports[Len(file.reports)].temperature = 0

\* C10: a temperature of 0 from the API is a present value, never absent:
\* get_temperature returns it, save_weather_report appends a report with
\* temperature 0 and returns True, and compare_cities compares it as a number
\* instead of returning the failure message.
C10_ZeroIsPresent ==
    /\ (last.op = "get_temperature" /\ HasTemp(last.resp)
            /\ last.resp.body["main"]["temp"] = 0)
        => last.result = Value(0)
    /\ (last.op = "save_weather_report" /\ last.temp = Value(0))
        => /\ last.result # Value(FALSE)
           /\ file.kind \notin {"undecodable", "object"}
                => last.result = Value(TRUE) /\ SavedLast /\ fsops = <<"r", "w">>
    /\ (last.op = "compare_cities" /\ last.temp1 # Unset /\ last.temp2 # Unset
            /\ Value(0) \in {last.temp1, last.temp2} /\ None \notin {last.temp1, last.temp2})
        => LET other == IF last.temp1 = Value(0) THEN last.temp2.val ELSE last.temp1.val
               msg == last.result.val
           IN  /\ msg # <<"Impossible de comparer les villes">>
               /\ other = 0 => msg = <<"Les deux villes ont la même température (",
                                       <<"0">>, "°C)">>
               /\ other > 0 => Len(msg) = 8 /\ msg[5] = Str(other) /\ msg[7] = <<"0">>

C10_Witness ==
    /\ last.op = "save_weather_report"
    /\ last.temp = Value(0)
    /\ last.result = Value(TRUE)
    /\ base = json_dump(<<LyonReport>>)
    /\ Len(file.reports) = 2
    /\ file.reports[2].temperature = 0
====
